---- MODULE Spec2Model ----
(***************************************************************************)
(* Class-room booking system (src/main.py): Room, RoomManager, the CSV     *)
(* snapshot written by save_to_csv and read by load_from_csv, and the menu *)
(* loop of main().                                                         *)
(*                                                                         *)
(* Python strings are sequences of one-character strings, so that the CSV  *)
(* text is really produced and parsed.  A Room is a record; the registry   *)
(* (RoomManager.rooms) is a sequence of Rooms.  ValueError messages are    *)
(* named by the error kind they report.                                    *)
(***************************************************************************)
EXTENDS Integers, Sequences, FiniteSets, TLC

\* ------------------------------------------------------------------ bounds
\* The registry is never grown beyond MaxRooms rooms (guards of add/load).
MaxRooms == 2

\* ------------------------------------------------------------- characters
COMMA == ","
QUOTE == "\""
SEMI  == ";"
CR    == "\r"
LF    == "\n"
MINUS == "-"
Digits == <<"0", "1", "2", "3", "4", "5", "6", "7", "8", "9">>

\* ------------------------------------------------------------ error kinds
OK              == "ok"
InvalidCapacity == "InvalidCapacity"   \* "Capacity must be positive."
DuplicateId     == "DuplicateId"       \* "Room with ID ... already exists."
RoomNotFound    == "RoomNotFound"      \* "Room ... not found."
InvalidHour     == "InvalidHour"       \* "Hour must be between 0 and 23."
AlreadyBooked   == "AlreadyBooked"     \* "Hour ... is already booked ..."
NotBooked       == "NotBooked"         \* "Hour ... is not booked ..."
NoSnapshot      == "NoSnapshot"        \* "No existing CSV file found."
LoadError       == "LoadError"         \* "Error loading CSV: ..."
SaveError       == "SaveError"         \* "Error saving CSV: ..."
InputError      == "InputError"        \* a prompt of main() rejected the input

\* --------------------------------------------------- str(int) and int(str)
RECURSIVE StrNat(_)
StrNat(n) ==
    IF n < 10 THEN <<Digits[n + 1]>>
    ELSE StrNat(n \div 10) \o <<Digits[(n % 10) + 1]>>

\* str(n) of a Python int
Str(n) == IF n < 0 THEN <<MINUS>> \o StrNat(0 - n) ELSE StrNat(n)

IsDigit(c) == \E d \in 1..10 : Digits[d] = c

DigitVal(c) == (CHOOSE d \in 1..10 : Digits[d] = c) - 1

RECURSIVE NatVal(_)
NatVal(s) ==
    IF Len(s) = 0 THEN 0
    ELSE 10 * NatVal(SubSeq(s, 1, Len(s) - 1)) + DigitVal(s[Len(s)])

AllDigits(s) == Len(s) > 0 /\ \A i \in 1..Len(s) : IsDigit(s[i])

\* int(s) succeeds: an optional sign and at least one decimal digit
\* (surrounding blanks and "_" separators are outside the alphabet used).
IsIntStr(s) ==
    IF Len(s) > 0 /\ s[1] = MINUS THEN AllDigits(Tail(s)) ELSE AllDigits(s)

\* int(s) where IsIntStr(s)
IntVal(s) == IF s[1] = MINUS THEN 0 - NatVal(Tail(s)) ELSE NatVal(s)

\* -------------------------------------------------- sorted, join and split
\* sorted(S) for a finite set of integers
RECURSIVE Sorted(_)
Sorted(S) ==
    IF S = {} THEN <<>>
    ELSE LET m == CHOOSE x \in S : \A y \in S : x <= y
         IN  <<m>> \o Sorted(S \ {m})

\* sep.join(parts)
RECURSIVE Join(_, _)
Join(parts, sep) ==
    IF Len(parts) = 0 THEN <<>>
    ELSE IF Len(parts) = 1 THEN parts[1]
    ELSE parts[1] \o <<sep>> \o Join(Tail(parts), sep)

\* s.split(sep): always at least one part
RECURSIVE Split(_, _)
Split(s, sep) ==
    IF \A i \in 1..Len(s) : s[i] # sep THEN <<s>>
    ELSE LET k == CHOOSE i \in 1..Len(s) :
                      s[i] = sep /\ \A j \in 1..(i - 1) : s[j] # sep
         IN  <<SubSeq(s, 1, k - 1)>> \o Split(SubSeq(s, k + 1, Len(s)), sep)

\* ------------------------------------------------------------------- Room
\* Room.__init__
NewRoom(room_no, building, capacity) ==
    [room_no |-> room_no, building |-> building, capacity |-> capacity,
     booked_hours |-> {}]

\* book_hour without its range test
book_hour_no_range(room, hour) ==
    IF hour \in room.booked_hours THEN [room |-> room, err |-> AlreadyBooked]
    ELSE [room |-> [room EXCEPT !.booked_hours = @ \cup {hour}], err |-> OK]

\* Room.book_hour: the membership test comes before the range test
book_hour(room, hour) ==
    IF hour \in room.booked_hours THEN [room |-> room, err |-> AlreadyBooked]
    ELSE IF ~(0 <= hour /\ hour <= 23) THEN [room |-> room, err |-> InvalidHour]
    ELSE [room |-> [room EXCEPT !.booked_hours = @ \cup {hour}], err |-> OK]

\* Room.is_free_at_hour
is_free_at_hour(room, hour) == hour \notin room.booked_hours

\* cancel_hour dropping every booking of the room
cancel_hour_clears(room, hour) ==
    IF hour \notin room.booked_hours THEN [room |-> room, err |-> NotBooked]
    ELSE IF ~(0 <= hour /\ hour <= 23) THEN [room |-> room, err |-> InvalidHour]
    ELSE [room |-> [room EXCEPT !.booked_hours = {}], err |-> OK]

\* Room.cancel_hour: the membership test comes before the range test
cancel_hour(room, hour) ==
    IF hour \notin room.booked_hours THEN [room |-> room, err |-> NotBooked]
    ELSE IF ~(0 <= hour /\ hour <= 23) THEN [room |-> room, err |-> InvalidHour]
    ELSE [room |-> [room EXCEPT !.booked_hours = @ \ {hour}], err |-> OK]

\* get_booked_hours_str joining the hours with the field delimiter
get_booked_hours_str_comma(room) ==
    IF room.booked_hours = {} THEN <<>>
    ELSE LET hs == Sorted(room.booked_hours)
         IN  Join([i \in 1..Len(hs) |-> Str(hs[i])], COMMA)

\* Room.get_booked_hours_str
get_booked_hours_str(room) ==
    IF room.booked_hours = {} THEN <<>>
    ELSE LET hs == Sorted(room.booked_hours)
         IN  Join([i \in 1..Len(hs) |-> Str(hs[i])], SEMI)

\* Room.from_csv_row: the unpacking needs exactly four fields, int() must
\* accept the capacity and every hour; neither capacity nor hours are
\* validated.  err is LoadError where Python raises ValueError.
from_csv_row(row) ==
    IF Len(row) # 4 THEN [err |-> LoadError]
    ELSE IF ~IsIntStr(row[3]) THEN [err |-> LoadError]
    ELSE LET parts == IF Len(row[4]) = 0 THEN <<>> ELSE Split(row[4], SEMI)
         IN  IF \E i \in 1..Len(parts) : ~IsIntStr(parts[i])
             THEN [err |-> LoadError]
             ELSE [err |-> OK,
                   room |-> [NewRoom(row[1], row[2], IntVal(row[3]))
                             EXCEPT !.booked_hours =
                                 {IntVal(parts[i]) : i \in 1..Len(parts)}]]

\* ------------------------------------------------- csv.writer (excel dialect)
\* A field is quoted when it holds the delimiter, the quote character or a
\* character of the line terminator (QUOTE_MINIMAL).
NeedsQuote(f) == \E i \in 1..Len(f) : f[i] \in {COMMA, QUOTE, CR, LF}

\* doublequote: every quote character of a quoted field is written twice
RECURSIVE DoubleQuotes(_)
DoubleQuotes(f) ==
    IF Len(f) = 0 THEN <<>>
    ELSE (IF f[1] = QUOTE THEN <<QUOTE, QUOTE>> ELSE <<f[1]>>)
         \o DoubleQuotes(Tail(f))

WriteField(f) ==
    IF NeedsQuote(f) THEN <<QUOTE>> \o DoubleQuotes(f) \o <<QUOTE>> ELSE f

\* writer.writerow(fields), for rows of two fields or more
WriteRow(fields) ==
    Join([i \in 1..Len(fields) |-> WriteField(fields[i])], COMMA) \o <<CR, LF>>

\* ------------------------------------------------- csv.reader (excel dialect)
\* The parser of csv.reader, non-strict: st.state is its state, st.field the
\* field being collected, st.row the fields of the record being read and
\* st.rows the records already returned.
ReaderStates ==
    {"START_RECORD", "START_FIELD", "IN_FIELD", "IN_QUOTED_FIELD",
     "QUOTE_IN_QUOTED_FIELD", "EAT_CRNL"}

ReaderStart == [state |-> "START_RECORD", field |-> <<>>, row |-> <<>>, rows |-> <<>>]

SaveField(st) == [st EXCEPT !.row = Append(@, st.field), !.field = <<>>]

AddChar(st, c) == [st EXCEPT !.field = Append(@, c)]

\* one character of a line
Feed(st, c) ==
    CASE st.state = "START_RECORD" /\ c \in {CR, LF} ->
            [st EXCEPT !.state = "EAT_CRNL"]
      [] st.state \in {"START_RECORD", "START_FIELD"} ->
            IF c \in {CR, LF} THEN [SaveField(st) EXCEPT !.state = "EAT_CRNL"]
            ELSE IF c = QUOTE THEN [st EXCEPT !.state = "IN_QUOTED_FIELD"]
            ELSE IF c = COMMA THEN [SaveField(st) EXCEPT !.state = "START_FIELD"]
            ELSE [AddChar(st, c) EXCEPT !.state = "IN_FIELD"]
      [] st.state = "IN_FIELD" ->
            IF c \in {CR, LF} THEN [SaveField(st) EXCEPT !.state = "EAT_CRNL"]
            ELSE IF c = COMMA THEN [SaveField(st) EXCEPT !.state = "START_FIELD"]
            ELSE AddChar(st, c)
      [] st.state = "IN_QUOTED_FIELD" ->
            IF c = QUOTE THEN [st EXCEPT !.state = "QUOTE_IN_QUOTED_FIELD"]
            ELSE AddChar(st, c)
      [] st.state = "QUOTE_IN_QUOTED_FIELD" ->
            IF c = QUOTE THEN [AddChar(st, c) EXCEPT !.state = "IN_QUOTED_FIELD"]
            ELSE IF c = COMMA THEN [SaveField(st) EXCEPT !.state = "START_FIELD"]
            ELSE IF c \in {CR, LF} THEN [SaveField(st) EXCEPT !.state = "EAT_CRNL"]
            ELSE [AddChar(st, c) EXCEPT !.state = "IN_FIELD"]
      [] OTHER -> st   \* EAT_CRNL: the rest of the line terminator

\* the record is returned: next(reader) yields st.row
EmitRow(st) ==
    [st EXCEPT !.state = "START_RECORD", !.rows = Append(@, st.row),
               !.row = <<>>, !.field = <<>>]

\* the end of a line; a quoted field goes on into the next line
FeedEOL(st) ==
    CASE st.state \in {"START_RECORD", "EAT_CRNL"} -> EmitRow(st)
      [] st.state = "IN_QUOTED_FIELD" -> st
      [] OTHER -> EmitRow(SaveField(st))

\* A file opened with newline='' ends a line after LF, after CR LF, after a
\* CR that no LF follows, and at the end of the text.
EndsLine(text, i) ==
    \/ i = Len(text)
    \/ text[i] = LF
    \/ text[i] = CR /\ text[i + 1] # LF

\* the character at position i, and the end of its line if it ends one
ReadChar(text, i, st) ==
    LET st1 == Feed(st, text[i])
    IN  IF EndsLine(text, i) THEN FeedEOL(st1) ELSE st1

\* the characters lo..hi in order: lo, lo+1, ...  (the span is halved, and
\* the parser's state after the first half is computed before the second
\* half is read, which keeps the evaluation shallow)
RECURSIVE ReadSpan(_, _, _, _)
ReadSpan(text, lo, hi, st) ==
    IF lo > hi THEN st
    ELSE IF lo = hi THEN ReadChar(text, lo, st)
    ELSE LET mid == (lo + hi) \div 2
             left == ReadSpan(text, lo, mid, st)
         IN  IF left.state \in ReaderStates
             THEN ReadSpan(text, mid + 1, hi, left)
             ELSE left

\* the whole text; at the end of the file inside a quoted field the
\* record read so far is returned as well
ReadAll(text) ==
    LET st == ReadSpan(text, 1, Len(text), ReaderStart)
    IN  IF st.state = "IN_QUOTED_FIELD" THEN EmitRow(SaveField(st)).rows
        ELSE st.rows

\* list(csv.reader(file)): the records of the text, each a sequence of fields
CsvRows(text) == ReadAll(text)

\* ------------------------------------------------------------ RoomManager
\* An optional argument or value: None is <<>>, a given value v is <<v>>.
None == <<>>

Some(v) == <<v>>

\* RoomManager._find_room: the position of the first room with this id,
\* 0 for None
_find_room(rs, room_no) ==
    IF \E i \in 1..Len(rs) : rs[i].room_no = room_no
    THEN CHOOSE i \in 1..Len(rs) :
             rs[i].room_no = room_no /\ \A j \in 1..(i - 1) : rs[j].room_no # room_no
    ELSE 0

\* add_room appending the room before it looks for a duplicate
add_room_append_first(rs, room_no, building, capacity) ==
    IF capacity <= 0 THEN [rooms |-> rs, err |-> InvalidCapacity]
    ELSE IF \E i \in 1..Len(rs) : rs[i].room_no = room_no
    THEN [rooms |-> Append(rs, NewRoom(room_no, building, capacity)),
          err |-> DuplicateId]
    ELSE [rooms |-> Append(rs, NewRoom(room_no, building, capacity)), err |-> OK]

\* RoomManager.add_room
add_room(rs, room_no, building, capacity) ==
    IF capacity <= 0 THEN [rooms |-> rs, err |-> InvalidCapacity]
    ELSE IF \E i \in 1..Len(rs) : rs[i].room_no = room_no
    THEN [rooms |-> rs, err |-> DuplicateId]
    ELSE [rooms |-> Append(rs, NewRoom(room_no, building, capacity)), err |-> OK]

\* RoomManager.book_room
book_room(rs, room_no, hour) ==
    LET i == _find_room(rs, room_no)
    IN  IF i = 0 THEN [rooms |-> rs, err |-> RoomNotFound]
        ELSE LET r == book_hour(rs[i], hour)
             IN  [rooms |-> [rs EXCEPT ![i] = r.room], err |-> r.err]

\* RoomManager.cancel_booking
cancel_booking(rs, room_no, hour) ==
    LET i == _find_room(rs, room_no)
    IN  IF i = 0 THEN [rooms |-> rs, err |-> RoomNotFound]
        ELSE LET r == cancel_hour(rs[i], hour)
             IN  [rooms |-> [rs EXCEPT ![i] = r.room], err |-> r.err]

\* One room passes the filters of find_rooms.  building and min_capacity
\* are tested for truth ("if building and ..."), hour against None.
Matches(room, building, min_capacity, hour) ==
    /\ ~(building # None /\ building[1] # <<>> /\ room.building # building[1])
    /\ ~(min_capacity # None /\ min_capacity[1] # 0
            /\ room.capacity < min_capacity[1])
    /\ ~(hour # None /\ ~is_free_at_hour(room, hour[1]))

\* RoomManager.find_rooms: the matching rooms, in registry order
find_rooms(rs, building, min_capacity, hour) ==
    LET Keep(room) == Matches(room, building, min_capacity, hour)
    IN  SelectSeq(rs, Keep)

\* RoomManager.view_room: the room itself is returned
view_room(rs, room_no) ==
    LET i == _find_room(rs, room_no)
    IN  IF i = 0 THEN [ret |-> None, err |-> RoomNotFound]
        ELSE [ret |-> Some(rs[i]), err |-> OK]

\* list.remove of the room at position i
RemoveAt(rs, i) == SubSeq(rs, 1, i - 1) \o SubSeq(rs, i + 1, Len(rs))

\* RoomManager.delete_room: removes the room _find_room returned
delete_room(rs, room_no) ==
    LET i == _find_room(rs, room_no)
    IN  IF i = 0 THEN [rooms |-> rs, err |-> RoomNotFound]
        ELSE [rooms |-> RemoveAt(rs, i), err |-> OK]

\* --------------------------------------------------------------- snapshot
HeaderRow == << <<"r","o","o","m","_","n","o">>,
                <<"b","u","i","l","d","i","n","g">>,
                <<"c","a","p","a","c","i","t","y">>,
                <<"b","o","o","k","e","d","_","h","o","u","r","s">> >>

\* the row save_to_csv writes for one room
RoomRow(room) ==
    <<room.room_no, room.building, Str(room.capacity), get_booked_hours_str(room)>>

RECURSIVE WriteRooms(_)
WriteRooms(rs) ==
    IF Len(rs) = 0 THEN <<>>
    ELSE WriteRow(RoomRow(rs[1])) \o WriteRooms(Tail(rs))

\* the text save_to_csv writes
Serialize(rs) == WriteRow(HeaderRow) \o WriteRooms(rs)

\* RoomManager.save_to_csv: f is the file before (None when missing),
\* openFails the outcome of open(filename, 'w').  The error is caught.
save_to_csv(rs, f, openFails) ==
    IF openFails THEN [file |-> f, err |-> SaveError]
    ELSE [file |-> Some(Serialize(rs)), err |-> OK]

\* The loop of load_from_csv over the records after the header: every
\* parsed room is appended at once, a row that fails ends the loop and
\* leaves the rooms appended so far.
RECURSIVE LoadRows(_, _, _)
LoadRows(rs, rows, i) ==
    IF i > Len(rows) THEN [rooms |-> rs, err |-> OK]
    ELSE IF Len(rows[i]) = 0 THEN LoadRows(rs, rows, i + 1)
    ELSE LET r == from_csv_row(rows[i])
         IN  IF r.err # OK THEN [rooms |-> rs, err |-> LoadError]
             ELSE LoadRows(Append(rs, r.room), rows, i + 1)

\* RoomManager.load_from_csv: a missing file returns at once; open() may
\* fail; next(reader) on a text without records raises StopIteration;
\* every exception is caught and nothing is undone.
load_from_csv(rs, f, openFails) ==
    IF f = None THEN [rooms |-> rs, err |-> NoSnapshot]
    ELSE IF openFails THEN [rooms |-> rs, err |-> LoadError]
    ELSE LET rows == CsvRows(f[1])
         IN  IF Len(rows) = 0 THEN [rooms |-> rs, err |-> LoadError]
             ELSE LoadRows(rs, rows, 2)

\* ----------------------------------------------------------------- inputs
\* Room ids and building names: plain ones, and ones that the CSV writer
\* has to quote (a delimiter, a quote character, a line break).
IdA == <<"A">>

IdB == <<"B", COMMA>>

RoomNos == {IdA, IdB}

NoBuilding == <<>>

Annex == <<QUOTE, "x", LF>>

Buildings == {NoBuilding, Annex}

\* hours: both ends of the day and the two values just outside
HourInputs == {-1, 0, 23, 24}

\* arguments of add_room under Spec: one building and capacity for each
\* id, and capacities that are not positive
AddInputs ==
    {<<IdA, NoBuilding, 1>>, <<IdB, Annex, 2>>,
     <<IdA, Annex, 0>>, <<IdB, NoBuilding, -1>>}

\* arguments of book_room and cancel_booking under Spec: room A is asked
\* for every hour of HourInputs, room B only for hours outside the day
HourArgs ==
    {<<IdA, h>> : h \in HourInputs} \cup {<<IdB, -1>>, <<IdB, 24>>}

\* arguments of add_room, book_room and cancel_booking under SpecCore
CoreAddInputs == RoomNos \X Buildings \X {-1, 0, 1, 2}

CoreHourArgs == RoomNos \X HourInputs

BuildingFilters == {None} \cup {Some(b) : b \in Buildings}

CapacityFilters == {None, Some(0), Some(2)}

HourFilters == {None, Some(0), Some(23)}

\* arguments of find_rooms: no filter, one filter, all three
FindInputs ==
    {<<None, None, None>>, <<Some(NoBuilding), None, None>>,
     <<None, Some(2), None>>, <<Some(Annex), Some(0), Some(0)>>}

CoreFindInputs == BuildingFilters \X CapacityFilters \X HourFilters

\* Snapshots that were not written by save_to_csv: an empty file, a header
\* alone, a row whose capacity is no number after a well-formed row, a row
\* of three fields, the same id twice, an hour that is none of the day.
Row(a, b, c, d) == WriteRow(<<a, b, c, d>>)

ExternalTexts ==
    {<<>>,
     WriteRow(HeaderRow),
     WriteRow(HeaderRow) \o Row(IdA, NoBuilding, <<"1">>, <<"2", "3">>)
                        \o Row(IdB, Annex, <<"x">>, <<>>),
     WriteRow(HeaderRow) \o WriteRow(<<IdA, NoBuilding, <<"1">>>>),
     WriteRow(HeaderRow) \o Row(IdA, NoBuilding, <<"1">>, <<>>)
                        \o Row(IdA, Annex, <<"2">>, <<"0">>),
     WriteRow(HeaderRow) \o Row(IdB, Annex, <<"0">>, <<"2", "4">>)}

\* ------------------------------------------------------------------ state
VARIABLES
    rooms,   \* RoomManager.rooms of the manager in use
    file,    \* bookings_final_state.csv: None when missing, else Some(text)
    last,    \* the last operation, how it ended, the rooms a find returned
    pc,      \* where main() is: "start", "menu", "done"; "api" outside main()
    saves    \* the calls of save_to_csv made by main()

vars == <<rooms, file, last, pc, saves>>

Last(op, err) == [op |-> op, err |-> err, found |-> 0]

\* find_rooms ended: main() prints the number of rooms found
Found(n) == [op |-> "find_rooms", err |-> OK, found |-> n]

\* RoomManager.__init__ with no snapshot on disk
Init ==
    /\ rooms = <<>>
    /\ file = None
    /\ last = Last("init", OK)
    /\ pc = "api"
    /\ saves = 0

\* ------------------------------------------- operations of the RoomManager
\* a fresh RoomManager()
NewManager ==
    /\ rooms # <<>>
    /\ rooms' = <<>>
    /\ last' = Last("init", OK)
    /\ UNCHANGED <<file, pc, saves>>

AddRoom(inputs) ==
    \E a \in inputs :
        LET r == add_room(rooms, a[1], a[2], a[3])
        IN  /\ Len(r.rooms) <= MaxRooms
            /\ rooms' = r.rooms
            /\ last' = Last("add_room", r.err)
            /\ UNCHANGED <<file, pc, saves>>

BookRoom(inputs) ==
    \E a \in inputs :
        LET r == book_room(rooms, a[1], a[2])
        IN  /\ rooms' = r.rooms
            /\ last' = Last("book_room", r.err)
            /\ UNCHANGED <<file, pc, saves>>

CancelBooking(inputs) ==
    \E a \in inputs :
        LET r == cancel_booking(rooms, a[1], a[2])
        IN  /\ rooms' = r.rooms
            /\ last' = Last("cancel_booking", r.err)
            /\ UNCHANGED <<file, pc, saves>>

\* find_rooms returns a list and changes nothing
FindRooms(inputs) ==
    \E a \in inputs :
        /\ last' = Found(Len(find_rooms(rooms, a[1], a[2], a[3])))
        /\ UNCHANGED <<rooms, file, pc, saves>>

ViewRoom ==
    \E id \in RoomNos :
        /\ last' = Last("view_room", view_room(rooms, id).err)
        /\ UNCHANGED <<rooms, file, pc, saves>>

DeleteRoom ==
    \E id \in RoomNos :
        LET r == delete_room(rooms, id)
        IN  /\ rooms' = r.rooms
            /\ last' = Last("delete_room", r.err)
            /\ UNCHANGED <<file, pc, saves>>

SaveToCsv ==
    \E openFails \in BOOLEAN :
        LET r == save_to_csv(rooms, file, openFails)
        IN  /\ file' = r.file
            /\ last' = Last("save_to_csv", r.err)
            /\ UNCHANGED <<rooms, pc, saves>>

LoadFromCsv ==
    \E openFails \in BOOLEAN :
        LET r == load_from_csv(rooms, file, openFails)
        IN  /\ file # None \/ ~openFails
            /\ Len(r.rooms) <= MaxRooms
            /\ rooms' = r.rooms
            /\ last' = Last("load_from_csv", r.err)
            /\ UNCHANGED <<file, pc, saves>>

\* Any sequence of RoomManager operations, the snapshot included.
Next ==
    \/ NewManager
    \/ AddRoom(AddInputs)
    \/ BookRoom(HourArgs)
    \/ CancelBooking(HourArgs)
    \/ FindRooms(FindInputs)
    \/ ViewRoom
    \/ DeleteRoom
    \/ SaveToCsv
    \/ LoadFromCsv

Spec == Init /\ [][Next]_vars

\* The operations on the registry alone, over more rooms.
NextCore ==
    \/ AddRoom(CoreAddInputs)
    \/ BookRoom(CoreHourArgs)
    \/ CancelBooking(CoreHourArgs)
    \/ FindRooms(CoreFindInputs)
    \/ ViewRoom
    \/ DeleteRoom

SpecCore == Init /\ [][NextCore]_vars

\* The same operations, started on a snapshot that something else wrote.
InitExt ==
    /\ rooms = <<>>
    /\ file \in {Some(t) : t \in ExternalTexts}
    /\ last = Last("init", OK)
    /\ pc = "api"
    /\ saves = 0

SpecExt == InitExt /\ [][Next]_vars

\* ------------------------------------------------------------------ main()
Blanks == {" ", CR, LF}

\* str.strip()
RECURSIVE Strip(_)
Strip(s) ==
    IF Len(s) = 0 THEN s
    ELSE IF s[1] \in Blanks THEN Strip(Tail(s))
    ELSE IF s[Len(s)] \in Blanks THEN Strip(SubSeq(s, 1, Len(s) - 1))
    ELSE s

\* str.lower(), on the letters the answers are typed with
Lower(s) ==
    [i \in 1..Len(s) |->
        CASE s[i] = "Y" -> "y" [] s[i] = "E" -> "e" [] s[i] = "S" -> "s"
          [] s[i] = "N" -> "n" [] s[i] = "O" -> "o" [] OTHER -> s[i]]

Hall == <<"H", QUOTE>>

\* what the user types at the prompts of main()
IdTyped == {<<>>, IdA, <<" ", "A", " ">>, IdB}

BuildingTyped == {<<>>, Hall}

CapacityTyped == {<<>>, <<"x">>, <<"0">>, <<"1">>}

HourTyped == {<<>>, <<"x">>, <<"-", "1">>, <<"0">>, <<"2", "3">>, <<"2", "4">>}

MinCapacityTyped == {<<>>, <<"x">>, <<"0">>, <<"2">>}

ConfirmTyped == {<<>>, <<"y">>, <<"Y", "e", "s">>, <<"n", "o">>}

\* the handlers of main() that print the error and leave the loop at once
AfterError_exits(err) == IF err = OK THEN "menu" ELSE "done"

\* Where main() goes on after a choice: a ValueError, or any other
\* Exception, is printed by the handlers at the end of the loop body, a
\* rejected input is printed and followed by "continue"; the loop goes on.
AfterError(err) == "menu"

\* "value or None"
OrNone(s) == IF Len(s) = 0 THEN None ELSE Some(s)

\* main() up to the menu: a new RoomManager loads the snapshot
MainStart ==
    /\ pc = "start"
    /\ \E openFails \in BOOLEAN :
           LET r == load_from_csv(<<>>, file, openFails)
           IN  /\ file # None \/ ~openFails
               /\ Len(r.rooms) <= MaxRooms
               /\ rooms' = r.rooms
               /\ last' = Last("load_from_csv", r.err)
    /\ pc' = "menu"
    /\ UNCHANGED <<file, saves>>

\* choice "1"
MainAdd ==
    /\ pc = "menu"
    /\ \E idT \in IdTyped, bT \in BuildingTyped, cT \in CapacityTyped :
           LET room_no == Strip(idT)
               building == Strip(bT)
               capacity_str == Strip(cT)
               r == IF \/ Len(room_no) = 0
                       \/ Len(building) = 0
                       \/ Len(capacity_str) = 0
                       \/ ~IsIntStr(capacity_str)
                    THEN [rooms |-> rooms, err |-> InputError]
                    ELSE add_room(rooms, room_no, building, IntVal(capacity_str))
           IN  /\ Len(r.rooms) <= MaxRooms
               /\ rooms' = r.rooms
               /\ last' = Last("add_room", r.err)
               /\ pc' = AfterError(r.err)
    /\ UNCHANGED <<file, saves>>

\* choices "2" and "5" read the same two inputs
HourPrompts(idT, hT) ==
    LET room_no == Strip(idT)
        hour_str == Strip(hT)
    IN  IF Len(room_no) = 0 \/ Len(hour_str) = 0 \/ ~IsIntStr(hour_str)
        THEN [ok |-> FALSE, room_no |-> room_no, hour |-> 0]
        ELSE [ok |-> TRUE, room_no |-> room_no, hour |-> IntVal(hour_str)]

\* choice "2"
MainBook ==
    /\ pc = "menu"
    /\ \E idT \in IdTyped, hT \in HourTyped :
           LET p == HourPrompts(idT, hT)
               r == IF p.ok THEN book_room(rooms, p.room_no, p.hour)
                    ELSE [rooms |-> rooms, err |-> InputError]
           IN  /\ rooms' = r.rooms
               /\ last' = Last("book_room", r.err)
               /\ pc' = AfterError(r.err)
    /\ UNCHANGED <<file, saves>>

\* choice "3": int() of a filter that is no number raises ValueError
MainFind ==
    /\ pc = "menu"
    /\ \E bT \in BuildingTyped, mT \in MinCapacityTyped, hT \in HourTyped :
           LET building == OrNone(Strip(bT))
               min_cap_str == OrNone(Strip(mT))
               hour_str == OrNone(Strip(hT))
               bad == \/ min_cap_str # None /\ ~IsIntStr(min_cap_str[1])
                      \/ hour_str # None /\ ~IsIntStr(hour_str[1])
               min_capacity ==
                   IF min_cap_str = None THEN None ELSE Some(IntVal(min_cap_str[1]))
               hour == IF hour_str = None THEN None ELSE Some(IntVal(hour_str[1]))
           IN  /\ last' = IF bad THEN Last("find_rooms", InputError)
                          ELSE Found(Len(find_rooms(rooms, building,
                                                    min_capacity, hour)))
               /\ pc' = AfterError(IF bad THEN InputError ELSE OK)
    /\ UNCHANGED <<rooms, file, saves>>

\* choice "4"
MainView ==
    /\ pc = "menu"
    /\ \E idT \in IdTyped :
           LET room_no == Strip(idT)
               err == IF Len(room_no) = 0 THEN InputError
                      ELSE view_room(rooms, room_no).err
           IN  /\ last' = Last("view_room", err)
               /\ pc' = AfterError(err)
    /\ UNCHANGED <<rooms, file, saves>>

\* choice "5"
MainCancel ==
    /\ pc = "menu"
    /\ \E idT \in IdTyped, hT \in HourTyped :
           LET p == HourPrompts(idT, hT)
               r == IF p.ok THEN cancel_booking(rooms, p.room_no, p.hour)
                    ELSE [rooms |-> rooms, err |-> InputError]
           IN  /\ rooms' = r.rooms
               /\ last' = Last("cancel_booking", r.err)
               /\ pc' = AfterError(r.err)
    /\ UNCHANGED <<file, saves>>

\* choice "6": a room with bookings is deleted only after a "yes" or "y"
MainDelete ==
    /\ pc = "menu"
    /\ \E idT \in IdTyped, confirmT \in ConfirmTyped :
           LET room_no == Strip(idT)
               i == _find_room(rooms, room_no)
               confirm == Strip(confirmT)
               r == IF Len(room_no) = 0 THEN [rooms |-> rooms, err |-> InputError]
                    ELSE IF i = 0 THEN [rooms |-> rooms, err |-> RoomNotFound]
                    ELSE IF Cardinality(rooms[i].booked_hours) > 0
                            /\ ~(Len(confirm) > 0
                                 /\ Lower(confirm) \in {<<"y", "e", "s">>, <<"y">>})
                    THEN [rooms |-> rooms, err |-> OK]
                    ELSE delete_room(rooms, room_no)
           IN  /\ rooms' = r.rooms
               /\ last' = Last("delete_room", r.err)
               /\ pc' = AfterError(r.err)
    /\ UNCHANGED <<file, saves>>

\* choice "7": save, then break
MainExit ==
    /\ pc = "menu"
    /\ \E openFails \in BOOLEAN :
           LET r == save_to_csv(rooms, file, openFails)
           IN  /\ file' = r.file
               /\ last' = Last("exit", r.err)
    /\ saves' = saves + 1
    /\ pc' = "done"
    /\ UNCHANGED rooms

\* any other choice
MainInvalidChoice ==
    /\ pc = "menu"
    /\ last' = Last("invalid_choice", InputError)
    /\ pc' = AfterError(InputError)
    /\ UNCHANGED <<rooms, file, saves>>

\* one run of main(), on no snapshot or on any snapshot
InitMain ==
    /\ rooms = <<>>
    /\ file \in {None} \cup {Some(t) : t \in ExternalTexts}
    /\ last = Last("init", OK)
    /\ pc = "start"
    /\ saves = 0

NextMain ==
    \/ MainStart
    \/ MainAdd
    \/ MainBook
    \/ MainFind
    \/ MainView
    \/ MainCancel
    \/ MainDelete
    \/ MainExit
    \/ MainInvalidChoice

SpecMain == InitMain /\ [][NextMain]_vars

\* ================================================================= claims
Exists(rs, room_no) == _find_room(rs, room_no) # 0

\* C1: no two rooms of the registry have the same room_no, whatever
\* sequence of RoomManager operations was run.
C1_UniqueIds ==
    \A i \in 1..Len(rooms), j \in 1..Len(rooms) :
        i # j => rooms[i].room_no # rooms[j].room_no

\* C2: when add_room, book_room, cancel_booking, delete_room or view_room
\* fails, the registry after the call is the registry before it.
C2_FailureChangesNothing ==
    [][(/\ last'.op \in {"add_room", "book_room", "cancel_booking",
                         "delete_room", "view_room"}
        /\ last'.err # OK)
       => rooms' = rooms]_vars

\* a failed call on a registry that holds a room with a booking
C2_Witness ==
    /\ last.op \in {"add_room", "book_room", "cancel_booking"}
    /\ last.err \in {DuplicateId, AlreadyBooked, InvalidHour, NotBooked}
    /\ \E i \in 1..Len(rooms) : rooms[i].booked_hours # {}

\* C3: for an existing room, book and cancel with hour -1 or 24 fail with
\* InvalidHour, never with AlreadyBooked or NotBooked, and never succeed.
C3_OutOfRangeIsInvalidHour ==
    \A id \in RoomNos, h \in {-1, 24} :
        Exists(rooms, id) =>
            /\ book_room(rooms, id, h).err = InvalidHour
            /\ cancel_booking(rooms, id, h).err = InvalidHour

\* C4: a load_from_csv into a fresh manager that fails, or finds no file,
\* leaves the registry empty.
C4_FailedLoadLeavesEmpty ==
    [][(/\ rooms = <<>>
        /\ last'.op = "load_from_csv"
        /\ last'.err \in {LoadError, NoSnapshot})
       => rooms' = <<>>]_vars

\* a room passes every filter that was supplied (not None)
PassesSupplied(room, building, min_capacity, hour) ==
    /\ building # None => room.building = building[1]
    /\ min_capacity # None => room.capacity >= min_capacity[1]
    /\ hour # None => hour[1] \notin room.booked_hours

\* C5: find_rooms returns, in registry order, exactly the rooms that pass
\* every supplied filter; the empty building string, min_capacity 0 and
\* hour 0 are filters like any other value.
C5_FindAppliesEverySuppliedFilter ==
    \A b \in BuildingFilters, m \in CapacityFilters, h \in HourFilters :
        LET Keep(room) == PassesSupplied(room, b, m, h)
        IN  find_rooms(rooms, b, m, h) = SelectSeq(rooms, Keep)

\* C6: save_to_csv followed by load_from_csv of the file into a fresh
\* manager gives the same rooms in the same order, with the same id,
\* building, capacity and booked hours.
C6_SaveLoadRoundTrip ==
    LET saved == save_to_csv(rooms, file, FALSE)
    IN  load_from_csv(<<>>, saved.file, FALSE) = [rooms |-> rooms, err |-> OK]

\* a load has just read back the snapshot of two rooms, one of them with
\* two booked hours
C6_Witness ==
    /\ last.op = "load_from_csv"
    /\ last.err = OK
    /\ file = Some(Serialize(rooms))
    /\ Len(rooms) = 2
    /\ \E i \in 1..Len(rooms) : rooms[i].booked_hours = {0, 23}
    /\ \E i \in 1..Len(rooms) : rooms[i].room_no = IdB

\* C7: after delete_room(id) of an existing room, view_room(id) fails with
\* RoomNotFound, no find_rooms result holds a room of that id, and
\* add_room with that id and a positive capacity succeeds with a room that
\* has no bookings.
C7_DeletedRoomIsGone ==
    \A id \in RoomNos :
        Exists(rooms, id) =>
            LET d == delete_room(rooms, id)
                a == add_room(d.rooms, id, Annex, 1)
            IN  /\ d.err = OK
                /\ view_room(d.rooms, id).err = RoomNotFound
                /\ \A f \in CoreFindInputs :
                       LET found == find_rooms(d.rooms, f[1], f[2], f[3])
                       IN  \A k \in 1..Len(found) : found[k].room_no # id
                /\ a.err = OK
                /\ a.rooms[Len(a.rooms)] = NewRoom(id, Annex, 1)

\* C8: every room's booked hours are hours of the day and its capacity is
\* positive, in every state reached by add_room, book_room, cancel_booking,
\* delete_room and by save_to_csv followed by load_from_csv.
C8_HoursAndCapacityInRange ==
    \A i \in 1..Len(rooms) :
        /\ rooms[i].booked_hours \subseteq 0..23
        /\ rooms[i].capacity > 0

\* rooms read back from a snapshot, with both ends of the day booked
C8_Witness ==
    /\ last.op = "load_from_csv"
    /\ last.err = OK
    /\ \E i \in 1..Len(rooms) : rooms[i].booked_hours = {0, 23}

\* C9: for a room and an hour of the day that is not booked, book then
\* cancel both succeed and give back the registry as it was; a second book
\* fails with AlreadyBooked, a cancel of the unbooked hour with NotBooked.
C9_BookCancelRoundTrip ==
    \A id \in RoomNos, h \in 0..23 :
        (Exists(rooms, id) /\ h \notin rooms[_find_room(rooms, id)].booked_hours)
        => LET b == book_room(rooms, id, h)
               c == cancel_booking(b.rooms, id, h)
           IN  /\ b.err = OK
               /\ c.err = OK
               /\ c.rooms = rooms
               /\ book_room(b.rooms, id, h).err = AlreadyBooked
               /\ cancel_booking(rooms, id, h).err = NotBooked

\* a cancel has just succeeded on a room that keeps another booking
C9_Witness ==
    /\ last.op = "cancel_booking"
    /\ last.err = OK
    /\ \E i \in 1..Len(rooms) : rooms[i].booked_hours # {}

CoreErrors ==
    {InvalidCapacity, DuplicateId, RoomNotFound, InvalidHour, AlreadyBooked,
     NotBooked}

====
